---- MODULE Spec2Model ----
(***************************************************************************)
(* Model of YUASA_aging_15C_inrush.py: a Streamlit script that is re-run   *)
(* from its first line every time a sidebar widget changes.  The state is  *)
(* the widget values kept by the sidebar and the module-level names the    *)
(* script assigns while it runs.                                           *)
(*                                                                         *)
(* Reals are fixed-point integers.  Units:                                 *)
(*   dimensionless values, rates, capacities (%)  : 1/ONE                  *)
(*   time (months)                                : 1/MONTH                *)
(*   max_power_kw (a float, kW)                   : 1/ONE kW               *)
(*   inrush_current                               : 1/AMP A                *)
(*   resistances (mOhm)                           : 1/ONE mOhm             *)
(*   resistances (Ohm)                            : 1/OHM Ohm              *)
(*   voltages (V)                                 : 1/VOLT V               *)
(* Every intermediate value stays below 2^31.                              *)
(***************************************************************************)
EXTENDS Integers, Sequences, FiniteSets, TLC

VARIABLES
    initial_capacity,     \* sidebar slider, percent
    input_months,         \* sidebar number_input
    input_days,           \* sidebar number_input
    input_hours,          \* sidebar number_input
    min_temp,             \* sidebar slider, degrees C
    max_temp,             \* sidebar slider, degrees C
    temp_step,            \* sidebar slider, degrees C
    nominal_voltage,      \* sidebar number_input, V
    max_power_kw,         \* sidebar number_input, a float, in 1/ONE kW
    total_months,         \* in 1/MONTH months
    x_months,             \* sequence, in 1/MONTH months
    temps_list,           \* sequence of integer degrees C
    curves,               \* dict: temperature -> capacity sequence (1/ONE %)
    final_capacity,       \* temperature -> capacity[-1] shown in the legend
    inrush_current,       \* in 1/AMP A
    R_15_mohm,            \* sequence, in 1/ONE mOhm
    terminal_voltage_15,  \* sequence, in 1/VOLT V
    seen,                 \* history: the set of remembered evaluations
    changes               \* history: the number of runs after the first one

inputs == <<initial_capacity, input_months, input_days, input_hours,
            min_temp, max_temp, temp_step, nominal_voltage, max_power_kw>>

outputs == <<total_months, x_months, temps_list, curves, final_capacity,
             inrush_current, R_15_mohm, terminal_voltage_15>>

vars == <<inputs, outputs, seen, changes>>

----------------------------------------------------------------------------
(* Fixed-point arithmetic *)

ONE == 10 ^ 7

HALFWORD == 10 ^ 4

VOLT == 10 ^ 6

AMP == 10 ^ 5

OHM == 10 ^ 9

\* one month in time units: 24 h/day * 30.42 day/month * 10 (grid of 0.1)
MONTH == 24 * 3042 * 10

Abs(a) == IF a < 0 THEN -a ELSE a

Min(a, b) == IF a < b THEN a ELSE b

Max(a, b) == IF a > b THEN a ELSE b

\* ceil(a / b) for b > 0
CeilDiv(a, b) == -((-a) \div b)

\* digits of b taken per step so that Chunk(c) * c < 2^31
Chunk(c) ==
    IF c < 2 ^ 15 THEN 2 ^ 16
    ELSE IF c < 2 ^ 20 THEN 2 ^ 11
    ELSE IF c < 2 ^ 27 THEN 2 ^ 4
    ELSE 2

\* <<q + floor(u/c), u mod c>>: the carry of a partial remainder u
Carry(q, u, c) == <<q + (u \div c), u % c>>

\* <<floor(a*b/c), (a*b) mod c>> from h, the same pair for a * (b \div B),
\* and d, the low digit b % B
MulDivStep(a, d, c, B, h) ==
    Carry(B * h[1] + ((B * h[2]) \div c) + (a \div c) * d,
          ((B * h[2]) % c) + (a % c) * d, c)

\* <<floor(a*b/c), (a*b) mod c>> for a, b >= 0 and 0 < c < 2^30
RECURSIVE MulDivMod(_, _, _)
MulDivMod(a, b, c) ==
    IF b = 0 THEN <<0, 0>>
    ELSE MulDivStep(a, b % Chunk(c), c, Chunk(c), MulDivMod(a, b \div Chunk(c), c))

Sign(a) == IF a < 0 THEN -1 ELSE 1

\* a*b/c truncated toward zero
MulDiv(a, b, c) == Sign(a) * Sign(b) * MulDivMod(Abs(a), Abs(b), c)[1]

\* floor(a*b/ONE) for 0 <= a, b < 10^8
MulFix(a, b) ==
    LET a1 == a \div HALFWORD
        a0 == a % HALFWORD
        b1 == b \div HALFWORD
        b0 == b % HALFWORD
    IN  ((HALFWORD * HALFWORD) \div ONE) * a1 * b1
        + (a1 * b0 + a0 * b1 + (a0 * b0) \div HALFWORD) \div (ONE \div HALFWORD)

\* sum of f^k / k!, k = 0, 1, ...  (0 <= f <= ONE)
RECURSIVE ExpSeries(_, _, _, _)
ExpSeries(f, term, k, acc) ==
    IF term = 0 THEN acc
    ELSE ExpSeries(f, MulFix(term, f) \div k, k + 1, acc + term)

E == ExpSeries(ONE, ONE, 1, 0)

EInv == MulDiv(ONE, ONE, E)

RECURSIVE ScaleByE(_, _)
ScaleByE(r, n) ==
    IF n = 0 THEN r
    ELSE IF n > 0 THEN ScaleByE(MulFix(r, E), n - 1)
    ELSE ScaleByE(MulFix(r, EInv), n + 1)

\* e^y
Exp(y) ==
    LET n == y \div ONE
        f == y - n * ONE
    IN  ScaleByE(ExpSeries(f, ONE, 1, 0), n)

\* sum of z^k / k over odd k, for 0 <= z < ONE (pw is z^k, z2 is z^2)
RECURSIVE AtanhSeries(_, _, _, _)
AtanhSeries(z2, pw, k, acc) ==
    IF pw \div k = 0 THEN acc
    ELSE AtanhSeries(z2, MulFix(pw, z2), k + 2, acc + pw \div k)

\* atanh(z) for 0 <= z < ONE
AtanhOfAbs(z) == AtanhSeries(MulFix(z, z), z, 1, 0)

\* atanh(z) for -ONE < z < ONE
Atanh(z) == Sign(z) * AtanhOfAbs(Abs(z))

\* natural logarithm of x > 0: 2 * atanh((x - 1) / (x + 1))
Ln(x) == 2 * Atanh(MulDiv(x - ONE, ONE, x + ONE))

\* a function on 1..n as an array of n stored elements
Array(f) == f \o << >>

\* x ** (num / den) for a scalar x > 0
Pow(x, num, den) == Exp(MulDiv(Ln(x), num, den))

\* e ** (l * xs) for an array xs of times
ExpArray(l, xs) == Array([i \in DOMAIN xs |-> Exp(MulDiv(l, xs[i], MONTH))])

\* x ** xs for a scalar x > 0 and an array xs of times
PowArray(x, xs) == ExpArray(Ln(x), xs)

\* np.arange(start, stop, step) for step > 0
Arange(start, stop, step) ==
    LET n == Max(CeilDiv(stop - start, step), 0)
    IN  Array([i \in 1..n |-> start + (i - 1) * step])

\* np.minimum(xs, hi): the floor lo is not applied
Clip_noFloor(xs, lo, hi) == Array([i \in DOMAIN xs |-> Min(xs[i], hi)])

\* c * xs for a scalar c and an array xs
Scale(c, xs) == Array([i \in DOMAIN xs |-> c * xs[i]])

\* np.clip(xs, lo, hi)
Clip(xs, lo, hi) == Array([i \in DOMAIN xs |-> Min(Max(xs[i], lo), hi)])

----------------------------------------------------------------------------
(* Constants of the script *)

base_temp == 25

\* 0.0342
base_rate == 342 * (ONE \div (10 ^ 4))

\* half the activation energy
Ea_halved == 5000 \div 2

Ea == 5000

\* 8.314, in 1/1000 J/mol-K
R_const == 8314

T_ref == 25

T_15 == 15

\* np.arange(0, 11): the aging years 0..10
time == Arange(0, 11, 1)

\* the factors 1.0, 1.05, ..., 4.5 of the resistance table, in 1/100
AgingFactor == <<100, 105, 110, 125, 150, 175, 200, 250, 300, 375, 450>>

\* np.array([...]) * 13.83
R_25_mohm ==
    Array([i \in DOMAIN AgingFactor |-> AgingFactor[i] * 1383 * (ONE \div (10 ^ 4))])

\* T + 273.15, in 1/100 K
Kelvin(T) == T * 100 + 27315

\* 1 / (T + 273.15), in 10^-11 per K
InvKelvin(T) == MulDiv(10 ^ 9, 10 ^ 4, Kelvin(T))

\* Ea / R_const, in 10^-6
EaOverR == MulDiv(Ea, 10 ^ 9, R_const)

\* (Ea / R_const) * ((1 / (T_ref + 273.15)) - (1 / (T_15 + 273.15))):
\* the two temperatures swapped
ArrheniusExponent_swapped ==
    MulDiv(EaOverR, InvKelvin(T_ref) - InvKelvin(T_15), 10 ^ 9) \div ((10 ^ 8) \div ONE)

\* (Ea / R_const) * ((1 / (T_15 + 273.15)) - (1 / (T_ref + 273.15)))
ArrheniusExponent ==
    MulDiv(EaOverR, InvKelvin(T_15) - InvKelvin(T_ref), 10 ^ 9) \div ((10 ^ 8) \div ONE)

\* np.exp(...) of line 129
ArrheniusFactor == Exp(ArrheniusExponent)

\* R_25_mohm * np.exp(...)
CorrectedResistance ==
    Array([i \in DOMAIN R_25_mohm |-> MulFix(R_25_mohm[i], ArrheniusFactor)])

----------------------------------------------------------------------------
(* Statements of the script *)

\* one day and one hour in time units: 1 / 30.42 and 1 / 24 / 30.42 months
DAY == (MONTH * 100) \div 3042

HOUR == DAY \div 24

TotalMonths(m, d, h) == m * MONTH + d * DAY + h * HOUR

\* np.arange(0.1, total_months + 0.2, 0.1): the axis starts one step late
TimeAxis_fromStep(total) ==
    Arange(MONTH \div 10, total + 2 * (MONTH \div 10), MONTH \div 10)

\* np.arange(0, total_months + 0.05, 0.1): the stop is half a step short
TimeAxis_halfStep(total) == Arange(0, total + MONTH \div 20, MONTH \div 10)

\* np.arange(0, total_months + 0.1, 0.1)
TimeAxis(total) == Arange(0, total + MONTH \div 10, MONTH \div 10)

\* np.arange(min_temp, max_temp + temp_step, temp_step): runs past max_temp
TempsList_inclusive(mn, mx, st) == Arange(mn, mx + st, st)

\* [int(t) for t in np.arange(min_temp, max_temp + 1, temp_step)]
TempsList(mn, mx, st) == Arange(mn, mx + 1, st)

\* k_T = base_rate * 2 ** ((base_temp - T) / 10): the exponent's sign flipped
KT_flipped(T) == MulFix(base_rate, Pow(2 * ONE, base_temp - T, 10))

\* k_T = base_rate * 2 ** ((T - base_temp) / 10)
KT(T) == MulFix(base_rate, Pow(2 * ONE, T - base_temp, 10))

\* capacity = Q0 * (1 - k_T * x_months): linear instead of exponential decay
Capacity_linear(Q0, T, xs) ==
    Scale(Q0, Array([i \in DOMAIN xs |-> ONE - MulDiv(KT(T), xs[i], MONTH)]))

\* capacity = Q0 * ((1 - k_T) ** x_months)
Capacity(Q0, T, xs) == Scale(Q0, PowArray(ONE - KT(T), xs))

\* d[k] = v on a dict
Put(d, k, v) == (k :> v) @@ d

\* the dict of the previous run is kept
InitCurves_kept(old) == old

\* curves = {} ; old is the dict a previous run of the script left behind
InitCurves(old) == << >>

\* final_capacity = capacity[-1] ; curves[T] = capacity, on the pair
\* <<curves, final_capacity>>
LoopBody(acc, T, capacity) ==
    <<Put(acc[1], T, capacity), Put(acc[2], T, capacity[Len(capacity)])>>

\* the loop "for T in temps_list", iterations i..len, on the pair
\* <<curves, final_capacity>>
RECURSIVE CurvesLoop(_, _, _, _, _)
CurvesLoop(ts, i, Q0, xs, acc) ==
    IF i > Len(ts) THEN acc
    ELSE CurvesLoop(ts, i + 1, Q0, xs, LoopBody(acc, ts[i], Capacity(Q0, ts[i], xs)))

\* inrush_current = max_power_kw * 1000 / nominal_voltage
InrushCurrent(kw, V) == MulDiv(kw, (1000 * AMP) \div ONE, V)

\* R_15_mohm / 1000: Ohm, here in 1/OHM Ohm
MilliToOhm(R) == Array([i \in DOMAIN R |-> R[i] \div (1000 \div (OHM \div ONE))])

\* Rohm * I: Ohm times A, in 1/VOLT V
OhmTimesAmp(Rohm, I) ==
    Array([i \in DOMAIN Rohm |-> MulDiv(Rohm[i], I, (OHM \div VOLT) * AMP)])

\* voltage_drop_15 = (R_15_mohm / 1000) * inrush_current
VoltageDrop(R, I) == OhmTimesAmp(MilliToOhm(R), I)

\* nominal_voltage - voltage_drop_15, then np.clip(., 0, nominal_voltage)
TerminalVoltage(V, drop) ==
    Clip(Array([i \in DOMAIN drop |-> V * VOLT - drop[i]]), 0, V * VOLT)

----------------------------------------------------------------------------
(* One run of the script *)

\* lines 19-134 on the widget values in, a record of the nine inputs, after a
\* run that left the dict old: the names the script has assigned when it
\* reaches its last line
Evaluation(in, old) ==
    LET Q0    == in.initial_capacity
        total == TotalMonths(in.input_months, in.input_days, in.input_hours)
        xs    == TimeAxis(total)
        ts    == TempsList(in.min_temp, in.max_temp, in.temp_step)
        loop  == CurvesLoop(ts, 1, Q0, xs, <<InitCurves(old), << >> >>)
        I     == InrushCurrent(in.max_power_kw, in.nominal_voltage)
        R     == CorrectedResistance
    IN  [total_months |-> total, x_months |-> xs, temps_list |-> ts,
         curves |-> loop[1], final_capacity |-> loop[2],
         inrush_current |-> I, R_15_mohm |-> R,
         terminal_voltage_15 |-> TerminalVoltage(in.nominal_voltage, VoltageDrop(R, I))]

\* the widget values of the current state
Widgets ==
    [initial_capacity |-> initial_capacity, input_months |-> input_months,
     input_days |-> input_days, input_hours |-> input_hours,
     min_temp |-> min_temp, max_temp |-> max_temp, temp_step |-> temp_step,
     nominal_voltage |-> nominal_voltage, max_power_kw |-> max_power_kw]


----------------------------------------------------------------------------
(* Widget ranges and defaults (min_value, max_value, value of each sidebar *)
(* widget)                                                                 *)

InitialCapacityMin == 50

InitialCapacityMax == 100

InitialCapacityDefault == 95

InputMonthsMin == 0

InputMonthsMax == 120

InputMonthsDefault == 12

InputDaysMin == 0

InputDaysMax == 31

InputDaysDefault == 0

InputHoursMin == 0

InputHoursMax == 23

InputHoursDefault == 0

MinTempMin == -20

MinTempMax == 25

MinTempDefault == -15

MaxTempMin == 25

MaxTempMax == 60

MaxTempDefault == 45

TempStepMin == 1

TempStepMax == 10

TempStepDefault == 5

NominalVoltageMin == 12

NominalVoltageMax == 600

NominalVoltageDefault == 240

\* 1.0 kW, 50.0 kW and 12.0 kW
MaxPowerKwMin == ONE

MaxPowerKwMax == 50 * ONE

MaxPowerKwDefault == 12 * ONE

\* the widget values of the first run of the script
Defaults ==
    [initial_capacity |-> InitialCapacityDefault, input_months |-> InputMonthsDefault,
     input_days |-> InputDaysDefault, input_hours |-> InputHoursDefault,
     min_temp |-> MinTempDefault, max_temp |-> MaxTempDefault,
     temp_step |-> TempStepDefault, nominal_voltage |-> NominalVoltageDefault,
     max_power_kw |-> MaxPowerKwDefault]

(* The values each widget accepts *)

InitialCapacityValues == InitialCapacityMin..InitialCapacityMax

InputMonthsValues == InputMonthsMin..InputMonthsMax

InputDaysValues == InputDaysMin..InputDaysMax

InputHoursValues == InputHoursMin..InputHoursMax

MinTempValues == MinTempMin..MinTempMax

MaxTempValues == MaxTempMin..MaxTempMax

TempStepValues == TempStepMin..TempStepMax

NominalVoltageValues == NominalVoltageMin..NominalVoltageMax

\* every float of the range, as a real of the model
MaxPowerKwValues == MaxPowerKwMin..MaxPowerKwMax

(* Bounds of the exploration: of the values a widget accepts, those within *)
(* Spread of the two ends of its range and of its default, the storage     *)
(* months capped by MaxMonths, in sessions of at most MaxChanges widget    *)
(* changes                                                                 *)

\* distance of an explored value from the nearest end or default
Spread == 0

\* longest storage time in whole months
MaxMonths == 24

\* number of widget changes in a session
MaxChanges == 2

\* v is one of the explored values of a widget with range lo..hi and
\* default dflt
Explored(v, lo, dflt, hi) == \E c \in {lo, dflt, hi} : Abs(v - c) <= Spread

\* the values within Spread of lo, dflt or hi, as a set
Around(lo, dflt, hi) == UNION {(c - Spread)..(c + Spread) : c \in {lo, dflt, hi}}

----------------------------------------------------------------------------
(* The state machine: the script runs once per widget change *)

\* a widget changes and the script runs to its end on the widget values in
Run(in) ==
    /\ changes < MaxChanges
    /\ changes' = changes + 1
    /\ \E ev \in {Evaluation(in, curves)} :
        /\ initial_capacity' = in.initial_capacity
        /\ input_months' = in.input_months
        /\ input_days' = in.input_days
        /\ input_hours' = in.input_hours
        /\ min_temp' = in.min_temp
        /\ max_temp' = in.max_temp
        /\ temp_step' = in.temp_step
        /\ nominal_voltage' = in.nominal_voltage
        /\ max_power_kw' = in.max_power_kw
        /\ total_months' = ev.total_months
        /\ x_months' = ev.x_months
        /\ temps_list' = ev.temps_list
        /\ curves' = ev.curves
        /\ final_capacity' = ev.final_capacity
        /\ inrush_current' = ev.inrush_current
        /\ R_15_mohm' = ev.R_15_mohm
        /\ terminal_voltage_15' = ev.terminal_voltage_15
        /\ seen' = {[o EXCEPT !.away = @ \/ (o.in # in)] : o \in seen}

\* the first run of the script: every widget holds its default
Init ==
    \E ev \in {Evaluation(Defaults, << >>)} :
        /\ initial_capacity = Defaults.initial_capacity
        /\ input_months = Defaults.input_months
        /\ input_days = Defaults.input_days
        /\ input_hours = Defaults.input_hours
        /\ min_temp = Defaults.min_temp
        /\ max_temp = Defaults.max_temp
        /\ temp_step = Defaults.temp_step
        /\ nominal_voltage = Defaults.nominal_voltage
        /\ max_power_kw = Defaults.max_power_kw
        /\ total_months = ev.total_months
        /\ x_months = ev.x_months
        /\ temps_list = ev.temps_list
        /\ curves = ev.curves
        /\ final_capacity = ev.final_capacity
        /\ inrush_current = ev.inrush_current
        /\ R_15_mohm = ev.R_15_mohm
        /\ terminal_voltage_15 = ev.terminal_voltage_15
        /\ seen = {}
        /\ changes = 0

SetInitialCapacity ==
    \E v \in InitialCapacityValues :
        /\ Explored(v, InitialCapacityMin, InitialCapacityDefault, InitialCapacityMax)
        /\ Run([Widgets EXCEPT !.initial_capacity = v])

SetInputMonths ==
    \E v \in InputMonthsValues :
        /\ Explored(v, InputMonthsMin, Min(InputMonthsDefault, MaxMonths), Min(InputMonthsMax, MaxMonths))
        /\ Run([Widgets EXCEPT !.input_months = v])

SetInputDays ==
    \E v \in InputDaysValues :
        /\ Explored(v, InputDaysMin, InputDaysDefault, InputDaysMax)
        /\ Run([Widgets EXCEPT !.input_days = v])

SetInputHours ==
    \E v \in InputHoursValues :
        /\ Explored(v, InputHoursMin, InputHoursDefault, InputHoursMax)
        /\ Run([Widgets EXCEPT !.input_hours = v])

SetMinTemp ==
    \E v \in MinTempValues :
        /\ Explored(v, MinTempMin, MinTempDefault, MinTempMax)
        /\ Run([Widgets EXCEPT !.min_temp = v])

SetMaxTemp ==
    \E v \in MaxTempValues :
        /\ Explored(v, MaxTempMin, MaxTempDefault, MaxTempMax)
        /\ Run([Widgets EXCEPT !.max_temp = v])

SetTempStep ==
    \E v \in TempStepValues :
        /\ Explored(v, TempStepMin, TempStepDefault, TempStepMax)
        /\ Run([Widgets EXCEPT !.temp_step = v])

SetNominalVoltage ==
    \E v \in NominalVoltageValues :
        /\ Explored(v, NominalVoltageMin, NominalVoltageDefault, NominalVoltageMax)
        /\ Run([Widgets EXCEPT !.nominal_voltage = v])

\* the explored values are enumerated, the widget's range is too large to be
SetMaxPowerKw ==
    \E v \in Around(MaxPowerKwMin, MaxPowerKwDefault, MaxPowerKwMax) :
        /\ v \in MaxPowerKwValues
        /\ Explored(v, MaxPowerKwMin, MaxPowerKwDefault, MaxPowerKwMax)
        /\ Run([Widgets EXCEPT !.max_power_kw = v])

Next ==
    \/ SetInitialCapacity
    \/ SetInputMonths
    \/ SetInputDays
    \/ SetInputHours
    \/ SetMinTemp
    \/ SetMaxTemp
    \/ SetTempStep
    \/ SetNominalVoltage
    \/ SetMaxPowerKw

Spec == Init /\ [][Next]_vars

----------------------------------------------------------------------------
(* Remembering one evaluation, to compare it with a later one *)

\* the names the script assigned in the current state
Outputs ==
    [total_months |-> total_months, x_months |-> x_months,
     temps_list |-> temps_list, curves |-> curves,
     final_capacity |-> final_capacity, inrush_current |-> inrush_current,
     R_15_mohm |-> R_15_mohm, terminal_voltage_15 |-> terminal_voltage_15]

\* remember the current evaluation; away becomes TRUE once the script has
\* run on other widget values
Observe ==
    /\ seen = {}
    /\ seen' = {[in |-> Widgets, out |-> Outputs, away |-> FALSE]}
    /\ UNCHANGED <<inputs, outputs, changes>>

NextDet ==
    \/ SetInitialCapacity
    \/ SetInputDays
    \/ SetMaxTemp
    \/ SetNominalVoltage
    \/ Observe

SpecDet == Init /\ [][NextDet]_vars

----------------------------------------------------------------------------
(* Properties *)

\* the last index of the time axis
Last == Len(x_months)

\* the unclamped terminal voltages of the current state
Unclamped ==
    LET drop == VoltageDrop(R_15_mohm, inrush_current)
    IN  [i \in DOMAIN drop |-> nominal_voltage * VOLT - drop[i]]

\* C1: for each of the 11 entries of the aging table the terminal voltage is
\* the voltage nominal - (R_15/1000) * (P*1000/V) clamped to [0, nominal], so
\* it lies between 0 and the nominal voltage.
TerminalVoltageClamped ==
    /\ DOMAIN time = 1..11
    /\ DOMAIN terminal_voltage_15 = DOMAIN time
    /\ DOMAIN R_15_mohm = DOMAIN time
    /\ inrush_current = InrushCurrent(max_power_kw, nominal_voltage)
    /\ \A i \in 1..11 :
        /\ terminal_voltage_15[i] >= 0
        /\ terminal_voltage_15[i] <= nominal_voltage * VOLT
        /\ Unclamped[i] < 0 => terminal_voltage_15[i] = 0
        /\ Unclamped[i] > nominal_voltage * VOLT
             => terminal_voltage_15[i] = nominal_voltage * VOLT
        /\ Unclamped[i] \in 0..(nominal_voltage * VOLT)
             => terminal_voltage_15[i] = Unclamped[i]

\* a run in which the voltage drop exceeds the nominal voltage
WitnessDropExceedsNominal ==
    /\ nominal_voltage = NominalVoltageMin
    /\ \E i \in 1..11 : Unclamped[i] < 0 /\ terminal_voltage_15[i] = 0

\* C2: the time axis starts at 0 and the first point of every capacity curve
\* is the initial capacity itself, also when the storage time is 0.
FirstPointIsInitialCapacity ==
    /\ Len(x_months) >= 1
    /\ x_months[1] = 0
    /\ \A T \in DOMAIN curves :
        /\ Len(curves[T]) >= 1
        /\ curves[T][1] = initial_capacity * ONE

\* a run with storage time 0 that produced several curves
WitnessZeroStorage ==
    /\ total_months = 0
    /\ Cardinality(DOMAIN curves) >= 2
    /\ \A T \in DOMAIN curves : curves[T] = <<initial_capacity * ONE>>

\* C3: at every time t > 0 the capacity does not increase with temperature.
CapacityNonIncreasingInTemperature ==
    \A T1 \in DOMAIN curves : \A T2 \in DOMAIN curves :
        T1 < T2 =>
            \A i \in DOMAIN x_months :
                x_months[i] > 0 => curves[T2][i] <= curves[T1][i]

\* a run with two temperatures whose curves differ at some t > 0
WitnessTwoTemperatures ==
    \E T1 \in DOMAIN curves : \E T2 \in DOMAIN curves :
        /\ T1 < T2
        /\ \E i \in DOMAIN x_months :
            x_months[i] > 0 /\ curves[T2][i] < curves[T1][i]


\* the decay rates of the current sweep lie strictly between 0 and 1
RatesInUnitInterval == \A T \in DOMAIN curves : KT(T) > 0 /\ KT(T) < ONE

\* C8: over the whole input domain the monthly decay rate k(T) lies strictly
\* between 0 and 1, and every value of every capacity curve lies between 0
\* and the initial capacity.
CapacityWithinBounds ==
    /\ RatesInUnitInterval
    /\ \A T \in DOMAIN curves :
        \A i \in DOMAIN curves[T] :
            /\ curves[T][i] >= 0
            /\ curves[T][i] <= initial_capacity * ONE

\* a run whose sweep reaches both ends of the temperature range, with decay
\* visible at the last point of the hottest curve
WitnessExtremeTemperatures ==
    /\ MinTempMin \in DOMAIN curves
    /\ MaxTempMax \in DOMAIN curves
    /\ Last > 1
    /\ curves[MaxTempMax][Last] < initial_capacity * ONE
    /\ curves[MaxTempMax][Last] > 0

\* C5: the correction factor for 15 C against 25 C is greater than 1 (the
\* exponent is positive), the corrected table has the 11 entries of the base
\* table, and every corrected resistance exceeds its base resistance.
ColdResistanceIsHigher ==
    /\ ArrheniusExponent > 0
    /\ ArrheniusFactor > ONE
    /\ Len(R_15_mohm) = Len(R_25_mohm)
    /\ Len(R_15_mohm) = 11
    /\ \A i \in 1..11 : R_15_mohm[i] > R_25_mohm[i]

\* a run that produced the corrected table from the base table
WitnessCorrectedTable ==
    /\ R_15_mohm = CorrectedResistance
    /\ R_15_mohm[1] > R_25_mohm[1]
    /\ R_15_mohm[11] > R_25_mohm[11]

\* 0.0005: half a unit of the third decimal
Tolerance == 5 * (ONE \div (10 ^ 4))

\* the factor the run applied to the first entry of the table
AppliedFactor == MulDiv(R_15_mohm[1], ONE, R_25_mohm[1])

\* C6 as stated: the correction factor is approximately 1.147.
FactorIs1147 ==
    /\ Abs(ArrheniusFactor - 1147 * (ONE \div 1000)) <= Tolerance
    /\ Abs(AppliedFactor - 1147 * (ONE \div 1000)) <= Tolerance

\* C6 amended: with base 25 C, target 15 C, Ea = 5000 and R = 8.314 the
\* correction factor is approximately 1.0725, so a base resistance of 1.0 is
\* corrected to approximately 1.0725.
FactorIs10725 ==
    /\ Abs(ArrheniusFactor - 10725 * (ONE \div (10 ^ 4))) <= Tolerance
    /\ Abs(MulFix(ONE, ArrheniusFactor) - 10725 * (ONE \div (10 ^ 4))) <= Tolerance
    /\ Abs(AppliedFactor - 10725 * (ONE \div (10 ^ 4))) <= Tolerance

\* a run whose table carries the factor
WitnessFactorApplied ==
    /\ R_15_mohm[1] = MulFix(R_25_mohm[1], ArrheniusFactor)
    /\ AppliedFactor > ONE

\* the set of temperatures of the series
TempsSet == {temps_list[i] : i \in DOMAIN temps_list}

\* C7: the temperature series is non-empty, starts at min_temp, increases by
\* exactly temp_step, stays within [min_temp, max_temp] (min <= max and
\* step > 0), and the curve map has exactly one curve per entry.
TemperatureSeriesWellFormed ==
    /\ min_temp <= max_temp
    /\ temp_step > 0
    /\ Len(temps_list) >= 1
    /\ temps_list[1] = min_temp
    /\ \A i \in 1..(Len(temps_list) - 1) : temps_list[i + 1] = temps_list[i] + temp_step
    /\ \A i \in DOMAIN temps_list : temps_list[i] >= min_temp /\ temps_list[i] <= max_temp
    /\ DOMAIN curves = TempsSet
    /\ Cardinality(DOMAIN curves) = Len(temps_list)

\* a run whose series has several entries and stops short of max_temp
\* because temp_step does not divide the range
WitnessSeriesStopsShort ==
    /\ Len(temps_list) >= 2
    /\ temps_list[Len(temps_list)] < max_temp
    /\ temps_list[Len(temps_list)] + temp_step > max_temp
    /\ Cardinality(DOMAIN curves) = Len(temps_list)

\* C9: an evaluation on the widget values of a remembered evaluation gives
\* the remembered outputs, whatever was evaluated in between.
EvaluationsAreIndependent ==
    \A o \in seen : o.in = Widgets => o.out = Outputs

\* the widget values are back at a remembered evaluation's after runs on
\* other values
WitnessReturnedAfterOtherRuns ==
    \E o \in seen : o.away /\ o.in = Widgets /\ o.out = Outputs

\* C10: the time axis is non-empty, starts at 0 and increases in steps of 0.1
\* month; its last point, where the final capacity of each curve is read, is
\* at or after total_months and less than 0.1 month after it, with
\* total_months = months + days/30.42 + hours/24/30.42.
TimeAxisCoversStorageTime ==
    /\ total_months = TotalMonths(input_months, input_days, input_hours)
    /\ Len(x_months) >= 1
    /\ x_months[1] = 0
    /\ \A i \in 1..(Last - 1) : x_months[i + 1] = x_months[i] + MONTH \div 10
    /\ total_months <= x_months[Last]
    /\ x_months[Last] < total_months + MONTH \div 10
    /\ \A T \in DOMAIN curves :
        /\ Len(curves[T]) = Last
        /\ final_capacity[T] = curves[T][Last]

\* a run whose storage time is off the 0.1-month grid, so the last point is
\* strictly later than the storage time
WitnessOffGrid ==
    /\ input_days > 0
    /\ input_hours > 0
    /\ Last > 1
    /\ total_months < x_months[Last]
    /\ x_months[Last - 1] < total_months
    /\ DOMAIN final_capacity = DOMAIN curves

====
